---- MODULE Spec2Model ----
(***************************************************************************)
(* Model of the broken-link checker (analyzers/link_checker.py): link      *)
(* extraction, de-duplication and truncation, the thread pool that probes  *)
(* the targets, the outcome classifier, and the link-health reduction.     *)
(***************************************************************************)
EXTENDS Integers, Sequences, FiniteSets, TLC

(***************************************************************************)
(* Bounds of the model.                                                    *)
(***************************************************************************)
\* Largest number of <a href> tags of a modelled page.
MaxAnchors == 3
\* Largest number of distinct link targets of a modelled page.
MaxTargets == 2
\* Largest max_links below the default, so that truncation happens on the
\* modelled pages.
SmallMaxLinks == 2
\* Size of the worker pool.  The source passes max_workers=10
\* (link_checker.py:107); the pool is scaled down so that a page of
\* MaxTargets links saturates it and targets have to wait in the queue.
max_workers == 1
\* Largest outcome list handed to the link-health reduction in SpecScore.
MaxOutcomes == 4

(***************************************************************************)
(* Program constants.                                                      *)
(***************************************************************************)
\* LinkChecker.__init__(..., max_links=50)
default_max_links == 50
\* IEEE-754 double precision: significand width of a Python float.
MantissaBits == 53

(***************************************************************************)
(* URLs and hrefs.  An href is [form, page]; urljoin resolves it against   *)
(* the base URL into an absolute URL [scheme, page] (one host).            *)
(***************************************************************************)
base_url == [scheme |-> "https", page |-> 0]

SkippedForms == {"fragment", "javascript", "mailto", "tel"}
AbsoluteForms == {"http", "https", "ftp"}

\* urllib.parse.urljoin(base, href): an href with a scheme of its own is
\* returned as it is, any other is resolved against the base
urljoin(base, href) ==
    IF href.form \in AbsoluteForms \cup {"javascript", "mailto", "tel"}
    THEN [scheme |-> href.form, page |-> href.page]
    ELSE [scheme |-> base.scheme, page |-> href.page]

\* a_tag['href'].strip(): the href without the whitespace around it (the
\* field padded of an href that has some)
strip(href) == [form |-> href.form, page |-> href.page]

\* Faulty variant: a fragment-only href is not skipped
SkippedButFragments(href) == href.form \in SkippedForms \ {"fragment"}

\* href.startswith(('#', 'javascript:', 'mailto:', 'tel:'))
Skipped(href) == href.form \in SkippedForms

\* LinkChecker._extract_links: hrefs starting with '#', 'javascript:',
\* 'mailto:' or 'tel:' are skipped; the rest is resolved and kept when the
\* scheme is http or https.  Order and duplicates of the page are kept.
RECURSIVE _extract_links(_, _)
_extract_links(anchors, base) ==
    IF anchors = <<>> THEN <<>>
    ELSE LET href == strip(Head(anchors))
             rest == _extract_links(Tail(anchors), base)
         IN IF Skipped(href) THEN rest
            ELSE LET full_url == urljoin(base, href)
                 IN IF full_url.scheme \in {"http", "https"}
                    THEN <<full_url>> \o rest
                    ELSE rest

Range(s) == {s[i] : i \in 1..Len(s)}

\* list(set(raw_links)): every element once, in the set's iteration order,
\* which depends on the string hashes of the run: any order can come out.
ListOfSet(S) ==
    {s \in [1..Cardinality(S) -> S] : \A i, j \in 1..Cardinality(S) : s[i] = s[j] => i = j}

Min(a, b) == IF a <= b THEN a ELSE b
Max(a, b) == IF a >= b THEN a ELSE b

\* lst[:n] for n >= 0
Truncate(lst, n) == SubSeq(lst, 1, Min(Len(lst), n))

\* Faulty variant: list(set(raw_links[:self.max_links])), truncation first
UniqueLinksTruncateFirst(raw_links, cap) == ListOfSet(Range(Truncate(raw_links, cap)))

\* unique_links = list(set(raw_links))[:self.max_links]
UniqueLinks(raw_links, cap) == {Truncate(l, cap) : l \in ListOfSet(Range(raw_links))}

(***************************************************************************)
(* The transport and the outcome classifier.                               *)
(***************************************************************************)
\* What requests.head(url, timeout=..., allow_redirects=False) can do:
\* return a response with a status code, raise requests.exceptions.Timeout,
\* raise another requests.exceptions.RequestException (connection refused,
\* DNS failure, protocol error), or raise an exception that is no
\* RequestException.
Response(code) == [kind |-> "response", code |-> code]
TimeoutError == [kind |-> "Timeout", code |-> 0]
TransportError == [kind |-> "RequestException", code |-> 0]
UnexpectedError == [kind |-> "Exception", code |-> 0]

NoResponse == [kind |-> "none", code |-> 0]

\* Faulty variant: redirects are followed whatever the flag says
FollowRedirects(resp, follow) ==
    IF resp.kind = "response" /\ resp.code >= 300 /\ resp.code < 400 THEN 1 ELSE 0

\* Number of further HTTP requests requests.head sends after its first one:
\* with allow_redirects=False a 3xx response is returned as it is, and
\* nothing is sent again after a failure.
FollowUpRequests(resp, follow) ==
    IF follow /\ resp.kind = "response" /\ resp.code >= 300 /\ resp.code < 400
    THEN 1 ELSE 0

Outcome(url, status, code) == [url |-> url, status |-> status, status_code |-> code]
Returned(result) == [raised |-> FALSE, value |-> result]
Raised(url) == [raised |-> TRUE, value |-> Outcome(url, "none", 0)]

\* Faulty variant: `200 <= code <= 300`, the upper bound included
_check_single_link_inclusive(url, resp) ==
    IF resp.kind = "response"
    THEN LET code == resp.code
         IN IF 200 <= code /\ code <= 300 THEN Returned(Outcome(url, "working", code))
            ELSE IF 300 <= code /\ code < 400 THEN Returned(Outcome(url, "redirected", code))
            ELSE Returned(Outcome(url, "broken", code))
    ELSE IF resp.kind \in {"Timeout", "RequestException"}
         THEN Returned(Outcome(url, "unreachable", 0))
    ELSE Raised(url)

\* LinkChecker._check_single_link, given what requests.head did
_check_single_link(url, resp) ==
    IF resp.kind = "response"
    THEN LET code == resp.code
         IN IF 200 <= code /\ code < 300 THEN Returned(Outcome(url, "working", code))
            ELSE IF 300 <= code /\ code < 400 THEN Returned(Outcome(url, "redirected", code))
            ELSE Returned(Outcome(url, "broken", code))
    ELSE IF resp.kind = "Timeout" THEN Returned(Outcome(url, "unreachable", 0))
    ELSE IF resp.kind = "RequestException" THEN Returned(Outcome(url, "unreachable", 0))
    ELSE Raised(url)

\* Faulty variant: `except Exception: pass`, the failed target is dropped
CollectFutureSwallow(url, task) ==
    IF task.raised
    THEN [propagates |-> FALSE, appended |-> <<>>]
    ELSE [propagates |-> FALSE, appended |-> <<task.value>>]

\* Faulty variant: no try/except around future.result()
CollectFutureUnguarded(url, task) ==
    IF task.raised
    THEN [propagates |-> TRUE, appended |-> <<>>]
    ELSE [propagates |-> FALSE, appended |-> <<task.value>>]

\* The body of the as_completed loop of _check_links for one future:
\* future.result() either returns the task's result or re-raises its
\* exception, which `except Exception` turns into an unreachable outcome.
\* `appended` is what the loop body appends to results; [propagates |-> TRUE]
\* would be an exception leaving _check_links.
CollectFuture(url, task) ==
    IF task.raised
    THEN [propagates |-> FALSE, appended |-> <<Outcome(url, "unreachable", 0)>>]
    ELSE [propagates |-> FALSE, appended |-> <<task.value>>]

(***************************************************************************)
(* Python float arithmetic of _calculate_score, bit by bit.  A bit string  *)
(* is a sequence of 0/1, most significant bit first.                       *)
(***************************************************************************)
\* First k binary digits of num/den after the point, for 0 <= num < den
RECURSIVE FracBits(_, _, _)
FracBits(num, den, k) ==
    IF k = 0 THEN <<>>
    ELSE LET d == IF 2 * num >= den THEN 1 ELSE 0
         IN <<d>> \o FracBits(2 * num - d * den, den, k - 1)

\* What is left of num/den after its first k binary digits (0 iff exact)
RECURSIVE FracRem(_, _, _)
FracRem(num, den, k) ==
    IF k = 0 THEN num
    ELSE LET d == IF 2 * num >= den THEN 1 ELSE 0
         IN FracRem(2 * num - d * den, den, k - 1)

\* Number of zero digits before the first one digit of num/den, 0 < num < den
RECURSIVE LeadingZeros(_, _)
LeadingZeros(num, den) ==
    IF 2 * num >= den THEN 0 ELSE 1 + LeadingZeros(2 * num, den)

\* bits + one unit at position q (bits has a zero at or before q)
IncAt(bits, q) ==
    LET k == CHOOSE i \in 1..q : bits[i] = 0 /\ \A j \in (i+1)..q : bits[j] = 1
    IN [i \in 1..Len(bits) |-> IF i = k THEN 1 ELSE IF i > k /\ i <= q THEN 0 ELSE bits[i]]

\* Round a nonzero bit string to MantissaBits significant bits, to nearest,
\* ties to even; sticky says that the exact value has nonzero digits beyond
\* the string.  The result has the length of the input.
RoundSig(bits, sticky) ==
    LET n == Len(bits)
        p == CHOOSE i \in 1..n : bits[i] = 1 /\ \A j \in 1..(i-1) : bits[j] = 0
        last == p + MantissaBits - 1
    IN IF last >= n THEN bits
       ELSE LET guard == bits[last + 1]
                rest == sticky \/ \E i \in (last+2)..n : bits[i] = 1
                up == guard = 1 /\ (rest \/ bits[last] = 1)
                trunc == [i \in 1..n |-> IF i <= last THEN bits[i] ELSE 0]
            IN IF up THEN IncAt(trunc, last) ELSE trunc

\* a + b for bit strings of one length whose sum fits that length
AddBits(a, b) ==
    LET n == Len(a)
        c[i \in 1..(n+1)] == IF i = n + 1 THEN 0 ELSE (a[i] + b[i] + c[i+1]) \div 2
    IN [i \in 1..n |-> (a[i] + b[i] + c[i+1]) % 2]

\* a * 2^k within the length of a
ShiftLeft(a, k) == [i \in 1..Len(a) |-> IF i + k <= Len(a) THEN a[i+k] ELSE 0]

RECURSIVE BitsToNat(_)
BitsToNat(bits) ==
    IF bits = <<>> THEN 0
    ELSE 2 * BitsToNat(SubSeq(bits, 1, Len(bits) - 1)) + bits[Len(bits)]

Zeros(k) == [i \in 1..k |-> 0]

\* ratio = broken_count / total as a float, 0 < broken_count < total:
\* one integer bit followed by the fraction bits
FloatRatio(broken_count, total) ==
    LET digits == LeadingZeros(broken_count, total) + MantissaBits + 1
        exact == <<0>> \o FracBits(broken_count, total, digits)
        rounded == RoundSig(exact, FracRem(broken_count, total, digits) # 0)
    IN SubSeq(rounded, 1, digits)

\* 1 - ratio as a float, for a ratio in (0, 1): the two's complement of the
\* fraction, rounded
FloatOneMinus(ratio) ==
    LET frac == SubSeq(ratio, 2, Len(ratio))
        flipped == [i \in 1..Len(frac) |-> 1 - frac[i]]
    IN RoundSig(<<0>> \o IncAt(flipped, Len(frac)), FALSE)

\* x * 100 as a float, x in (0, 1): 8 integer bits, then the fraction
FloatTimes100(x) ==
    LET wide == Zeros(7) \o x
        exact == AddBits(AddBits(ShiftLeft(wide, 6), ShiftLeft(wide, 5)), ShiftLeft(wide, 2))
    IN RoundSig(exact, FALSE)

\* int((1 - broken_count / total) * 100) for 0 < broken_count <= total
IntScore(broken_count, total) ==
    IF broken_count = total THEN 0
    ELSE BitsToNat(SubSeq(FloatTimes100(FloatOneMinus(FloatRatio(broken_count, total))), 1, 8))

\* IntScore for every outcome list of the model, computed once
MaxTotal == Max(MaxTargets, MaxOutcomes)
IntScoreTable == [total \in 1..MaxTotal |-> [broken_count \in 1..total |-> IntScore(broken_count, total)]]

IsBad(r) == r.status \in {"broken", "unreachable"}

RECURSIVE CountIf(_, _)
CountIf(results, status) ==
    IF results = <<>> THEN 0
    ELSE (IF Head(results).status = status THEN 1 ELSE 0) + CountIf(Tail(results), status)

\* Faulty variant: the reduction stops at the first outcome when it is healthy
_calculate_score_first(results) ==
    IF results = <<>> THEN 100
    ELSE IF ~IsBad(Head(results)) THEN 100
    ELSE LET total == Len(results)
             broken_count == CountIf(results, "broken") + CountIf(results, "unreachable")
         IN Max(0, IntScoreTable[total][broken_count])

\* Faulty variant: a page without links to check scores 0
_calculate_score_empty_zero(results) ==
    IF results = <<>> THEN 0
    ELSE LET total == Len(results)
             broken_count == CountIf(results, "broken") + CountIf(results, "unreachable")
         IN IF broken_count = 0 THEN 100
            ELSE Max(0, IntScoreTable[total][broken_count])

\* LinkChecker._calculate_score
_calculate_score(results) ==
    IF results = <<>> THEN 100
    ELSE LET total == Len(results)
             broken_count == CountIf(results, "broken") + CountIf(results, "unreachable")
         IN IF broken_count = 0 THEN 100
            ELSE Max(0, IntScoreTable[total][broken_count])

(***************************************************************************)
(* LinkChecker.analyze after the probes: lines 29-64.                      *)
(***************************************************************************)
WithStatus(results, status) == SelectSeq(results, LAMBDA r : r.status = status)

LinkEntries(rs) ==
    [i \in 1..Len(rs) |-> [url |-> rs[i].url, status_code |-> rs[i].status_code]]

BrokenIssue(n) ==
    [severity |-> "high", message |-> <<n, "broken link(s) found on this page">>]
RedirectIssue(n) ==
    [severity |-> "low", message |-> <<n, "redirected link(s), consider updating to direct URLs">>]
BrokenRecommendation ==
    [category |-> "Links",
     recommendation |-> "Fix or remove broken links to improve user experience and SEO"]

\* Faulty variant: the redirect issue is raised from three redirects on
IssuesAfterInclusive(old, results) ==
    LET broken == WithStatus(results, "broken")
        redirected == WithStatus(results, "redirected")
        first == IF broken # <<>> THEN Append(old, BrokenIssue(Len(broken))) ELSE old
    IN IF redirected # <<>> /\ Len(redirected) >= 3
       THEN Append(first, RedirectIssue(Len(redirected)))
       ELSE first

\* self.issues after lines 34-48
IssuesAfter(old, results) ==
    LET broken == WithStatus(results, "broken")
        redirected == WithStatus(results, "redirected")
        first == IF broken # <<>> THEN Append(old, BrokenIssue(Len(broken))) ELSE old
    IN IF redirected # <<>> /\ Len(redirected) > 3
       THEN Append(first, RedirectIssue(Len(redirected)))
       ELSE first

\* self.recommendations after lines 34-42
RecommendationsAfter(old, results) ==
    IF WithStatus(results, "broken") # <<>> THEN Append(old, BrokenRecommendation) ELSE old

\* Faulty variant: broken_links lists the unreachable targets as well
ReportListingUnreachable(links, results, iss, recs) ==
    [score |-> _calculate_score(results),
     total_links |-> Len(links),
     working |-> Len(WithStatus(results, "working")),
     redirected |-> Len(WithStatus(results, "redirected")),
     broken |-> Len(WithStatus(results, "broken")),
     unreachable |-> Len(WithStatus(results, "unreachable")),
     broken_links |-> LinkEntries(WithStatus(results, "broken")
                                      \o WithStatus(results, "unreachable")),
     redirected_links |-> LinkEntries(WithStatus(results, "redirected")),
     details |-> results,
     issues |-> iss,
     recommendations |-> recs]

\* The dictionary analyze returns
Report(links, results, iss, recs) ==
    [score |-> _calculate_score(results),
     total_links |-> Len(links),
     working |-> Len(WithStatus(results, "working")),
     redirected |-> Len(WithStatus(results, "redirected")),
     broken |-> Len(WithStatus(results, "broken")),
     unreachable |-> Len(WithStatus(results, "unreachable")),
     broken_links |-> LinkEntries(WithStatus(results, "broken")),
     redirected_links |-> LinkEntries(WithStatus(results, "redirected")),
     details |-> results,
     issues |-> iss,
     recommendations |-> recs]

NoReport == [score |-> -1]

(***************************************************************************)
(* State.                                                                  *)
(***************************************************************************)
VARIABLES
    soup,             \* self.soup: the hrefs of the page's <a href> tags, in order
    max_links,        \* self.max_links
    issues,           \* self.issues
    recommendations,  \* self.recommendations
    pc,               \* where analyze is: "ready", "submit", "as_completed", "done"
    unique_links,     \* analyze: unique_links
    futures,          \* _check_links: the futures, in submission order
    yielded,          \* indices of the futures as_completed has yielded
    results,          \* _check_links: results
    network,          \* number of HTTP requests sent so far, per URL
    report,           \* what analyze returned
    self_results,     \* SEOScorer: self.results, the categories in insertion order
    returned,         \* SEOScorer: what the last method call returned or raised
    earlier,          \* the caller: the values earlier calls returned to it
    scans             \* history: the rows of the table scans

vars == <<soup, max_links, issues, recommendations, pc, unique_links, futures,
          yielded, results, network, report, self_results, returned, earlier, scans>>

\* The state of the caller of the analyzers (app.py)
caller_vars == <<earlier, scans>>

\* The state of the SEOScorer and of its caller
scorer_vars == <<self_results, returned, caller_vars>>

\* No method of the SEOScorer has been called yet
NoCall == [call |-> "none", args |-> <<>>, raised |-> "", value |-> 0]

Schemes == {"http", "https"}
AllUrls == {[scheme |-> s, page |-> n] : s \in Schemes, n \in 1..MaxAnchors}

\* hrefs of the modelled pages: relative links to pages of the site and a
\* fragment-only link
PageHrefs ==
    {[form |-> "relative", page |-> n] : n \in 1..MaxTargets}
        \cup {[form |-> "fragment", page |-> 0]}

\* The modelled pages.  Link targets are names: the pages of the site are
\* numbered in the order in which the document first links to them.
Pages ==
    {s \in UNION {[1..n -> PageHrefs] : n \in 0..MaxAnchors} :
        \A i \in 1..Len(s) :
            s[i].page > 1 => \E j \in 1..(i-1) : s[j].page = s[i].page - 1}

\* What the network answers in the modelled runs
NetResponses ==
    {Response(200), Response(301), Response(404), TimeoutError, TransportError,
     UnexpectedError}

\* A future: its state, what requests.head did for it (resp, once it ended)
\* and what _check_single_link returned or raised (task)
Pending == [state |-> "PENDING", resp |-> NoResponse, task |-> Raised(base_url)]
Running == [state |-> "RUNNING", resp |-> NoResponse, task |-> Raised(base_url)]
Finished(resp, task) == [state |-> "FINISHED", resp |-> resp, task |-> task]

InFlight == {i \in 1..Len(futures) : futures[i].state = "RUNNING"}
Started == Cardinality({i \in 1..Len(futures) : futures[i].state # "PENDING"})

\* State after LinkChecker(soup, base_url, max_links=...): lines 14-20
Init ==
    /\ soup \in Pages
    /\ max_links \in (1..SmallMaxLinks) \cup {default_max_links}
    /\ issues = <<>>
    /\ recommendations = <<>>
    /\ pc = "ready"
    /\ unique_links = <<>>
    /\ futures = <<>>
    /\ yielded = {}
    /\ results = <<>>
    /\ network = [u \in AllUrls |-> 0]
    /\ report = NoReport
    /\ self_results = <<>>
    /\ returned = NoCall
    /\ earlier = <<>>
    /\ scans = <<>>

(***************************************************************************)
(* Actions.                                                                *)
(***************************************************************************)
\* analyze, lines 24-27 and 106-107: extract, de-duplicate, truncate, enter
\* _check_links and create the pool
Analyze ==
    /\ pc = "ready"
    /\ unique_links' \in UniqueLinks(_extract_links(soup, base_url), max_links)
    /\ pc' = IF unique_links' = <<>> THEN "as_completed" ELSE "submit"
    /\ futures' = <<>>
    /\ yielded' = {}
    /\ results' = <<>>
    /\ UNCHANGED <<soup, max_links, issues, recommendations, network, report>>
    /\ UNCHANGED scorer_vars

\* _check_links, lines 108-111: executor.submit for the next link; the work
\* item joins the pool's queue
Submit ==
    /\ pc = "submit"
    /\ futures' = Append(futures, Pending)
    /\ pc' = IF Len(futures') = Len(unique_links) THEN "as_completed" ELSE "submit"
    /\ UNCHANGED <<soup, max_links, issues, recommendations, unique_links, yielded,
                   results, network, report>>
    /\ UNCHANGED scorer_vars

\* Faulty variant: the pool starts a thread for every work item
WorkerAlwaysAvailable(in_flight, started) == TRUE

\* Faulty variant: a worker thread ends after its first work item
WorkerOneShot(in_flight, started) ==
    Cardinality(in_flight) < max_workers /\ started < max_workers

\* A pool of max_workers threads has a thread for the next work item
WorkerAvailable(in_flight, started) == Cardinality(in_flight) < max_workers

\* A worker thread takes the work item at the head of the queue and calls
\* _check_single_link, which sends the request
WorkerStart ==
    /\ \E i \in 1..Len(futures) :
        /\ futures[i].state = "PENDING"
        /\ \A j \in 1..(i-1) : futures[j].state # "PENDING"
        /\ WorkerAvailable(InFlight, Started)
        /\ futures' = [futures EXCEPT ![i] = Running]
        /\ network' = [network EXCEPT ![unique_links[i]] = @ + 1]
    /\ UNCHANGED <<soup, max_links, issues, recommendations, pc, unique_links, yielded,
                   results, report>>
    /\ UNCHANGED scorer_vars

\* requests.head(url, ..., allow_redirects=False)
allow_redirects == FALSE

\* Faulty variant: the worker thread appends its outcome to the result list
\* itself
FinishAppending(i, resp) ==
    /\ futures[i].state = "RUNNING"
    /\ futures' = [futures EXCEPT
                       ![i] = Finished(resp, _check_single_link(unique_links[i], resp))]
    /\ network' = [network EXCEPT
                       ![unique_links[i]] = @ + FollowUpRequests(resp, allow_redirects)]
    /\ results' = IF futures'[i].task.raised THEN results
                  ELSE Append(results, futures'[i].task.value)
    /\ UNCHANGED <<soup, max_links, issues, recommendations, pc, unique_links, yielded,
                   report>>
    /\ UNCHANGED scorer_vars

\* The request of future i ends with resp: _check_single_link returns or
\* raises, the future is finished and the thread is free again
Finish(i, resp) ==
    /\ futures[i].state = "RUNNING"
    /\ futures' = [futures EXCEPT
                       ![i] = Finished(resp, _check_single_link(unique_links[i], resp))]
    /\ network' = [network EXCEPT
                       ![unique_links[i]] = @ + FollowUpRequests(resp, allow_redirects)]
    /\ UNCHANGED <<soup, max_links, issues, recommendations, pc, unique_links, yielded,
                   results, report>>
    /\ UNCHANGED scorer_vars

WorkerFinish == \E i \in 1..Len(futures) : \E resp \in NetResponses : Finish(i, resp)

\* _check_links, lines 112-118: as_completed yields a finished future and the
\* loop body appends its outcome
Collect ==
    /\ pc = "as_completed"
    /\ \E i \in 1..Len(futures) :
        /\ futures[i].state = "FINISHED"
        /\ i \notin yielded
        /\ LET got == CollectFuture(unique_links[i], futures[i].task)
           IN /\ yielded' = yielded \cup {i}
              /\ IF got.propagates
                 THEN /\ pc' = "raised"
                      /\ results' = results
                 ELSE /\ pc' = pc
                      /\ results' = results \o got.appended
    /\ UNCHANGED <<soup, max_links, issues, recommendations, unique_links, futures,
                   network, report>>
    /\ UNCHANGED scorer_vars

\* All futures were yielded: _check_links returns (line 119) and analyze
\* builds its result (lines 29-64)
Return ==
    /\ pc = "as_completed"
    /\ yielded = 1..Len(unique_links)
    /\ issues' = IssuesAfter(issues, results)
    /\ recommendations' = RecommendationsAfter(recommendations, results)
    /\ report' = Report(unique_links, results, issues', recommendations')
    /\ pc' = "done"
    /\ UNCHANGED <<soup, max_links, unique_links, futures, yielded, results, network>>
    /\ UNCHANGED scorer_vars

Next == Analyze \/ Submit \/ WorkerStart \/ WorkerFinish \/ Collect \/ Return

Spec == Init /\ [][Next]_vars

(***************************************************************************)
(* The same run under the scheduling the thread pool provides: the loop of *)
(* the calling thread keeps running, an idle worker thread takes the next  *)
(* work item, and every request returns or times out (timeout=5).          *)
(***************************************************************************)
\* Pages whose links are all distinct, analysed with the default max_links:
\* every list of up to MaxTargets targets reaches _check_links.
InitFair ==
    /\ Init
    /\ max_links = default_max_links
    /\ Len(soup) <= MaxTargets
    /\ \A i \in 1..Len(soup) : soup[i] = [form |-> "relative", page |-> i]

FairSpec ==
    /\ InitFair /\ [][Next]_vars
    /\ WF_vars(Submit) /\ WF_vars(WorkerStart) /\ WF_vars(WorkerFinish)
    /\ WF_vars(Collect) /\ WF_vars(Return)

(***************************************************************************)
(* One probe over the whole range of HTTP status codes.                    *)
(***************************************************************************)
\* Range of the status codes a response is modelled with (three digits).
MinStatus == 100
MaxStatus == 999

AnyResponses ==
    {Response(code) : code \in MinStatus..MaxStatus}
        \cup {TimeoutError, TransportError, UnexpectedError}

InitProbe ==
    /\ Init
    /\ soup = <<[form |-> "relative", page |-> 1]>>
    /\ max_links = default_max_links

ProbeFinish == \E i \in 1..Len(futures) : \E resp \in AnyResponses : Finish(i, resp)

NextProbe == Analyze \/ Submit \/ WorkerStart \/ ProbeFinish \/ Collect \/ Return

SpecProbe == InitProbe /\ [][NextProbe]_vars

(***************************************************************************)
(* Link extraction over pages with hrefs of every form.                    *)
(***************************************************************************)
\* hrefs: relative and absolute links, links of another protocol, the forms
\* that are skipped, the empty href, and a fragment with whitespace around it
ExtractHrefs ==
    {[form |-> "relative", page |-> 1], [form |-> "relative", page |-> 2],
     [form |-> "https", page |-> 1], [form |-> "http", page |-> 1],
     [form |-> "ftp", page |-> 1],
     [form |-> "fragment", page |-> 0], [form |-> "javascript", page |-> 0],
     [form |-> "mailto", page |-> 0], [form |-> "tel", page |-> 0],
     [form |-> "empty", page |-> 0],
     [form |-> "fragment", page |-> 0, padded |-> TRUE]}

ExtractPages == UNION {[1..n -> ExtractHrefs] : n \in 0..MaxAnchors}

InitExtract ==
    /\ soup \in ExtractPages
    /\ max_links \in (1..SmallMaxLinks) \cup {default_max_links}
    /\ issues = <<>>
    /\ recommendations = <<>>
    /\ pc = "ready"
    /\ unique_links = <<>>
    /\ futures = <<>>
    /\ yielded = {}
    /\ results = <<>>
    /\ network = [u \in AllUrls |-> 0]
    /\ report = NoReport
    /\ self_results = <<>>
    /\ returned = NoCall
    /\ earlier = <<>>
    /\ scans = <<>>

SpecExtract == InitExtract /\ [][Analyze]_vars

(***************************************************************************)
(* Properties of the prober.                                               *)
(***************************************************************************)
EntriesFor(url) == {k \in 1..Len(results) : results[k].url = url}
Targets == Range(unique_links)
Extracted == _extract_links(soup, base_url)

C2_InFlightAtMostCap == Cardinality(InFlight) <= max_workers

\* The pool is saturated while a target waits in the queue.
C2_Witness ==
    /\ Cardinality(InFlight) = max_workers
    /\ \E i \in 1..Len(futures) : futures[i].state = "PENDING"

\* C3: the number of outcomes is min(number of distinct extracted links,
\* max_links), and no request is ever sent to a URL outside unique_links.
C3_DedupThenTruncate ==
    /\ \A u \in AllUrls \ Targets : network[u] = 0
    /\ pc = "done" =>
        /\ Len(report.details) = Min(Cardinality(Range(Extracted)), max_links)
        /\ report.total_links = Len(report.details)

\* A page with a repeated link and more distinct links than max_links was
\* analysed.
C3_Witness ==
    /\ pc = "done"
    /\ Len(Extracted) > Cardinality(Range(Extracted))
    /\ Cardinality(Range(Extracted)) > max_links
    /\ Len(results) = max_links

\* C4: no exception leaves _check_links, and in the returned list the
\* outcome of a target whose request raised (Timeout, RequestException or
\* any other exception) is unreachable with status_code 0, while every
\* target whose request was answered keeps the outcome of its own answer.
C4_FailuresFolded ==
    /\ pc # "raised"
    /\ pc = "done" =>
        \A i \in 1..Len(unique_links) :
            \E k \in 1..Len(results) :
                /\ results[k].url = unique_links[i]
                /\ IF futures[i].resp.kind = "response"
                   THEN results[k] = _check_single_link(unique_links[i], futures[i].resp).value
                   ELSE /\ results[k].status = "unreachable"
                        /\ results[k].status_code = 0

\* One task raised an exception _check_single_link does not catch, and the
\* other target of the batch got its own outcome.
C4_Witness ==
    /\ pc = "done"
    /\ \E i, j \in 1..Len(unique_links) :
        /\ futures[i].resp = UnexpectedError
        /\ futures[i].task.raised
        /\ futures[j].resp = Response(200)
        /\ \E k \in 1..Len(results) :
            results[k] = Outcome(unique_links[j], "working", 200)

\* The future of the target an outcome is about
FutureOf(r) == futures[CHOOSE i \in 1..Len(unique_links) : unique_links[i] = r.url]

\* C5: 200-299 is working, 300-399 redirected, any other status broken, each
\* with the status code received; no status received is unreachable with
\* status_code 0; so unreachable goes with status_code 0 and nothing else does.
C5_Classification ==
    \A k \in 1..Len(results) :
        LET r == results[k]
            resp == FutureOf(r).resp
            code == resp.code
        IN /\ (resp.kind = "response" /\ 200 <= code /\ code <= 299)
                => (r.status = "working" /\ r.status_code = code)
           /\ (resp.kind = "response" /\ 300 <= code /\ code <= 399)
                => (r.status = "redirected" /\ r.status_code = code)
           /\ (resp.kind = "response" /\ (code < 200 \/ code > 399))
                => (r.status = "broken" /\ r.status_code = code)
           /\ resp.kind # "response"
                => (r.status = "unreachable" /\ r.status_code = 0)
           /\ r.status = "unreachable" <=> r.status_code = 0

\* A probe answered with status 300, the first redirect code.
C5_Witness ==
    /\ pc = "done"
    /\ \E k \in 1..Len(results) :
        /\ FutureOf(results[k]).resp = Response(300)
        /\ results[k].status = "redirected"

\* C6: no URL ever receives more than one request, every target whose probe
\* has started has received exactly one, and at the end every probed target
\* has received exactly one.
C6_OneRequestPerTarget ==
    /\ \A u \in AllUrls : network[u] <= 1
    /\ \A i \in 1..Len(futures) :
        futures[i].state # "PENDING" => network[unique_links[i]] = 1
    /\ pc = "done" => \A u \in Targets : network[u] = 1

\* A batch in which one probe got a redirect and another timed out.
C6_Witness ==
    /\ pc = "done"
    /\ \E i, j \in 1..Len(unique_links) :
        /\ futures[i].resp = Response(301)
        /\ futures[j].resp = TimeoutError
        /\ network[unique_links[i]] = 1
        /\ network[unique_links[j]] = 1

AllProbed ==
    /\ Len(futures) = Len(unique_links)
    /\ \A i \in 1..Len(futures) : futures[i].state = "FINISHED"

\* C7: once analyze has entered _check_links, the run ends with every
\* queued target probed.
C7_Terminates == (pc \in {"submit", "as_completed"}) ~> (pc = "done" /\ AllProbed)

\* A run with more targets than worker threads has ended.
C7_Witness ==
    /\ pc = "done"
    /\ AllProbed
    /\ Len(unique_links) > max_workers

(***************************************************************************)
(* The link-health reduction over outcome lists of up to MaxOutcomes       *)
(* outcomes: the state of a run in which every probe has ended and         *)
(* as_completed has yielded every future, before _check_links returns.     *)
(***************************************************************************)
\* One answer per outcome class
ScoreResponses == {Response(200), Response(301), Response(404), TimeoutError}

\* The i-th link of such a page, as href and as URL
ScoreHref(i) ==
    [form |-> IF i <= MaxAnchors THEN "https" ELSE "http",
     page |-> ((i - 1) % MaxAnchors) + 1]
ScoreLink(i) == urljoin(base_url, ScoreHref(i))

InitScore ==
    \E n \in 0..MaxOutcomes : \E answers \in [1..n -> ScoreResponses] :
        /\ soup = [i \in 1..n |-> ScoreHref(i)]
        /\ max_links = default_max_links
        /\ issues = <<>>
        /\ recommendations = <<>>
        /\ pc = "as_completed"
        /\ unique_links = [i \in 1..n |-> ScoreLink(i)]
        /\ futures = [i \in 1..n |->
                        Finished(answers[i], _check_single_link(ScoreLink(i), answers[i]))]
        /\ yielded = 1..n
        /\ results = [i \in 1..n |-> _check_single_link(ScoreLink(i), answers[i]).value]
        /\ network = [u \in AllUrls |-> IF \E i \in 1..n : u = ScoreLink(i) THEN 1 ELSE 0]
        /\ report = NoReport
        /\ self_results = <<>>
        /\ returned = NoCall
        /\ earlier = <<>>
        /\ scans = <<>>

SpecScore == InitScore /\ [][Return]_vars

\* The permutations of 1..n, for every length of the model
IndexOrders ==
    [n \in 0..MaxTotal |->
        {p \in [1..n -> 1..n] : \A i, j \in 1..n : p[i] = p[j] => i = j}]

Permuted(lst, p) == [i \in 1..Len(lst) |-> lst[p[i]]]

\* What the reduction makes of an outcome list, on a fresh LinkChecker
Reduction(rs) ==
    LET r == Report(unique_links, rs, IssuesAfter(<<>>, rs), RecommendationsAfter(<<>>, rs))
    IN [score |-> r.score, working |-> r.working, redirected |-> r.redirected,
        broken |-> r.broken, unreachable |-> r.unreachable, issues |-> r.issues,
        recommendations |-> r.recommendations]

ReportSummary ==
    [score |-> report.score, working |-> report.working,
     redirected |-> report.redirected, broken |-> report.broken,
     unreachable |-> report.unreachable, issues |-> report.issues,
     recommendations |-> report.recommendations]

\* C8: the score, the four counts, the issues and the recommendations that
\* analyze returned are those the reduction gives for every permutation of
\* the outcome list.
C8_OrderIndependent ==
    pc = "done" =>
        \A p \in IndexOrders[Len(results)] :
            Reduction(Permuted(results, p)) = ReportSummary

\* An outcome list of all four classes whose only bad outcome is last.
C8_Witness ==
    /\ pc = "done"
    /\ Len(results) = 4
    /\ results[1].status = "working"
    /\ results[2].status = "redirected"
    /\ results[3].status = "unreachable"
    /\ results[4].status = "broken"
    /\ report.score = 50

\* The outcomes in the order of unique_links, the order of submission
InSubmissionOrder ==
    [i \in 1..Len(unique_links) |->
        results[CHOOSE k \in 1..Len(results) : results[k].url = unique_links[i]]]

\* C9: for fixed targets and fixed transport results, analyze returns the
\* same dictionary whatever the completion order: the one of the run in
\* which the outcomes arrive in the order of submission.
C9_SameReportForEveryOrder ==
    pc = "done" =>
        report = Report(unique_links, InSubmissionOrder,
                        IssuesAfter(<<>>, InSubmissionOrder),
                        RecommendationsAfter(<<>>, InSubmissionOrder))

\* round(x) of Python for x = num / den >= 0: to nearest, ties to even
RoundDiv(num, den) ==
    LET q == num \div den
        r == num % den
    IN IF 2 * r > den \/ (2 * r = den /\ q % 2 = 1) THEN q + 1 ELSE q

BadCount == CountIf(results, "broken") + CountIf(results, "unreachable")

\* C10: for a non-empty outcome list the score is
\* round((1 - (broken + unreachable) / total) * 100), clamped to [0, 100].
C10_RoundedScore ==
    (pc = "done" /\ results # <<>>) =>
        report.score =
            Max(0, Min(100, RoundDiv(100 * (Len(results) - BadCount), Len(results))))

\* C11: the score analyze returns is an integer from 0 to 100, and for the
\* empty outcome list analyze returns (nothing is raised) with the score 100.
C11_ScoreInRange ==
    /\ pc # "raised"
    /\ pc = "done" =>
        /\ report.score \in 0..100
        /\ results = <<>> => report.score = 100

\* A page without links to check was analysed.
C11_Witness ==
    /\ pc = "done"
    /\ unique_links = <<>>
    /\ results = <<>>
    /\ report.score = 100

HighIssues == {k \in 1..Len(report.issues) : report.issues[k].severity = "high"}
LowIssues == {k \in 1..Len(report.issues) : report.issues[k].severity = "low"}

\* C12: analyze on a fresh checker returns one high-severity issue stating
\* the broken count and one fix-or-remove recommendation exactly when there
\* is a broken outcome, one low-severity issue exactly when more than three
\* outcomes are redirected, and no other issue or recommendation.
C12_IssuesAndRecommendations ==
    pc = "done" =>
        LET broken == CountIf(results, "broken")
            redirected == CountIf(results, "redirected")
        IN /\ Cardinality(HighIssues) = (IF broken > 0 THEN 1 ELSE 0)
           /\ \A k \in HighIssues : report.issues[k].message[1] = broken
           /\ report.recommendations =
                  (IF broken > 0 THEN <<BrokenRecommendation>> ELSE <<>>)
           /\ Cardinality(LowIssues) = (IF redirected > 3 THEN 1 ELSE 0)
           /\ Len(report.issues) = Cardinality(HighIssues) + Cardinality(LowIssues)

\* Four redirected outcomes gave the low-severity issue, and another list
\* length is excluded: the only issue is the redirect issue.
C12_Witness ==
    /\ pc = "done"
    /\ CountIf(results, "redirected") = 4
    /\ report.issues = <<RedirectIssue(4)>>
    /\ report.recommendations = <<>>

(***************************************************************************)
(* Python float arithmetic of SEOScorer.calculate_overall_score.  A        *)
(* non-negative float below 128 is the integer x * 2^60, written as four   *)
(* limbs of 17 bits, most significant limb first; at most MantissaBits     *)
(* significant bits of it are set.                                         *)
(***************************************************************************)
LimbBase == 2^17

\* The limbs after the carries have moved up; the top limb keeps the excess
Carry(l1, l2, l3, l4) ==
    LET s3 == l3 + l4 \div LimbBase
        s2 == l2 + s3 \div LimbBase
    IN <<l1 + s2 \div LimbBase, s2 % LimbBase, s3 % LimbBase, l4 % LimbBase>>

FloatZero == <<0, 0, 0, 0>>

AddLimbs(a, b) == Carry(a[1] + b[1], a[2] + b[2], a[3] + b[3], a[4] + b[4])

\* a * k for a small natural number k
TimesNat(a, k) == Carry(a[1] * k, a[2] * k, a[3] * k, a[4] * k)

GeqLimbs(a, b) ==
    \/ a[1] > b[1]
    \/ a[1] = b[1] /\ a[2] > b[2]
    \/ a[1] = b[1] /\ a[2] = b[2] /\ a[3] > b[3]
    \/ a[1] = b[1] /\ a[2] = b[2] /\ a[3] = b[3] /\ a[4] >= b[4]

\* a - b for a >= b
SubLimbs(a, b) ==
    LET t4 == a[4] - b[4] + LimbBase
        t3 == a[3] - b[3] + LimbBase - (1 - t4 \div LimbBase)
        t2 == a[2] - b[2] + LimbBase - (1 - t3 \div LimbBase)
    IN <<a[1] - b[1] - (1 - t2 \div LimbBase), t2 % LimbBase, t3 % LimbBase, t4 % LimbBase>>

RECURSIVE BitLength(_)
BitLength(n) == IF n = 0 THEN 0 ELSE 1 + BitLength(n \div 2)

\* Number of binary digits of a nonzero x
Digits(x) ==
    IF x[1] > 0 THEN 51 + BitLength(x[1])
    ELSE IF x[2] > 0 THEN 34 + BitLength(x[2])
    ELSE IF x[3] > 0 THEN 17 + BitLength(x[3])
    ELSE BitLength(x[4])

\* Rounding of an exact result x (sticky: the exact value lies above x) to
\* the nearest float, ties to even.  The digits beyond the MantissaBits
\* significant ones all lie in the last limb.
FloatRound(x, sticky) ==
    LET q == Digits(x) - MantissaBits
        unit == 2^q
        low == x[4] % unit
        kept == <<x[1], x[2], x[3], x[4] - low>>
        odd == (x[4] \div unit) % 2 = 1
        up == 2 * low > unit \/ (2 * low = unit /\ (sticky \/ odd))
    IN IF x = FloatZero \/ q <= 0 THEN x
       ELSE IF up THEN AddLimbs(kept, <<0, 0, 0, unit>>) ELSE kept

\* score * weight for an int score and a float weight
FloatTimesInt(x, k) == FloatRound(TimesNat(x, k), FALSE)

\* a + b for floats
FloatAdd(a, b) == FloatRound(AddLimbs(a, b), FALSE)

\* Long division by den in base 16: the quotient and the remainder after k
\* steps, from the remainder start, bringing down the two hexadecimal digits
\* of low and then zeros
RECURSIVE LongDivision(_, _, _, _)
LongDivision(start, low, den, k) ==
    IF k = 0 THEN [quotient |-> FloatZero, rem |-> start]
    ELSE LET prev == LongDivision(start, low, den, k - 1)
             digit == IF k = 1 THEN low \div 16 ELSE IF k = 2 THEN low % 16 ELSE 0
             shifted == AddLimbs(TimesNat(prev.rem, 16), <<0, 0, 0, digit>>)
             d == CHOOSE n \in 0..15 :
                      /\ GeqLimbs(shifted, TimesNat(den, n))
                      /\ ~GeqLimbs(shifted, TimesNat(den, n + 1))
         IN IF prev.rem = FloatZero /\ digit = 0
            THEN [quotient |-> TimesNat(prev.quotient, 16), rem |-> FloatZero]
            ELSE [quotient |-> AddLimbs(TimesNat(prev.quotient, 16), <<0, 0, 0, d>>),
                  rem |-> SubLimbs(shifted, TimesNat(den, d))]

\* The digits of a * 2^60 / b and the remainder left, for b nonzero and
\* a / b below 2^8: the quotient then has no digit before its 8 integer
\* bits, so the division starts with the remainder a \div 2^8 and takes
\* (8 + 60) / 4 steps
Quotient(a, b) ==
    LET start == <<a[1] \div 2^8,
                   (a[1] % 2^8) * 2^9 + a[2] \div 2^8,
                   (a[2] % 2^8) * 2^9 + a[3] \div 2^8,
                   (a[3] % 2^8) * 2^9 + a[4] \div 2^8>>
    IN LongDivision(start, a[4] % 2^8, b, 17)

\* a / b for floats
FloatDiv(a, b) ==
    LET d == Quotient(a, b)
    IN FloatRound(d.quotient, d.rem # FloatZero)

\* The float a literal 0.h denotes, for h hundredths
FloatOfHundredths(h) == FloatDiv(<<0, 0, 0, h>>, <<0, 0, 0, 100>>)

\* Faulty variant: the integer above the whole part, whatever the fraction
PyRoundAbove(x) == x[1] \div 2^9 + 1

\* round(x) of Python for a float x: to the nearest integer, ties to even
PyRound(x) ==
    LET whole == x[1] \div 2^9
        half == (x[1] \div 2^8) % 2 = 1
        more == x[1] % 2^8 # 0 \/ x[2] # 0 \/ x[3] # 0 \/ x[4] # 0
    IN IF half /\ (more \/ whole % 2 = 1) THEN whole + 1 ELSE whole

(***************************************************************************)
(* SEOScorer, src/analyzers/seo_scorer.py.  A dictionary is a function     *)
(* from its keys; self.results is the sequence of its categories in        *)
(* insertion order, each with the dictionary its analyzer returned.        *)
(***************************************************************************)
\* Faulty variant: content weighs 0.17
WEIGHTSLight ==
    <<[category |-> "title", weight |-> 15],
      [category |-> "meta_description", weight |-> 12],
      [category |-> "url_structure", weight |-> 10],
      [category |-> "headings", weight |-> 13],
      [category |-> "content", weight |-> 17],
      [category |-> "images", weight |-> 10],
      [category |-> "links", weight |-> 12],
      [category |-> "performance", weight |-> 10]>>

\* The weight table in the order of its entries, the weights in hundredths
\* (0.15 is written 15)
WEIGHTS ==
    <<[category |-> "title", weight |-> 15],
      [category |-> "meta_description", weight |-> 12],
      [category |-> "url_structure", weight |-> 10],
      [category |-> "headings", weight |-> 13],
      [category |-> "content", weight |-> 18],
      [category |-> "images", weight |-> 10],
      [category |-> "links", weight |-> 12],
      [category |-> "performance", weight |-> 10]>>

\* The floats the weight literals denote, from the i-th entry on
RECURSIVE FloatWeightsFrom(_)
FloatWeightsFrom(i) ==
    IF i > Len(WEIGHTS) THEN <<>>
    ELSE <<FloatOfHundredths(WEIGHTS[i].weight)>> \o FloatWeightsFrom(i + 1)

FloatWeights == FloatWeightsFrom(1)

PRIORITY_THRESHOLDS == [high |-> 40, medium |-> 70, low |-> 85]

Keys(rs) == {rs[i].category : i \in 1..Len(rs)}
DataOf(rs, c) == rs[CHOOSE i \in 1..Len(rs) : rs[i].category = c].data

\* dict.get(key, default)
Get(d, key, default) == IF key \in DOMAIN d THEN d[key] ELSE default

\* Faulty variant: a category outside the weight table is counted with the
\* weight of the last entry when that entry has no score of its own
ProfileWithUnweighted(rs) ==
    LET known == {WEIGHTS[j].category : j \in 1..Len(WEIGHTS)}
        own == {i \in 1..Len(WEIGHTS) :
                   /\ WEIGHTS[i].category \in Keys(rs)
                   /\ "score" \in DOMAIN DataOf(rs, WEIGHTS[i].category)}
        other == {k \in 1..Len(rs) : rs[k].category \notin known /\ "score" \in DOMAIN rs[k].data}
        extra == IF other # {} /\ Len(WEIGHTS) \notin own THEN {Len(WEIGHTS)} ELSE {}
    IN [i \in own \cup extra |->
           IF i \in own THEN DataOf(rs, WEIGHTS[i].category).score
           ELSE rs[CHOOSE k \in other : TRUE].data.score]

\* calculate_overall_score, lines 40-42: the entries of WEIGHTS whose
\* category is in self.results with a score, and that score
Profile(rs) ==
    [i \in {j \in 1..Len(WEIGHTS) :
                /\ WEIGHTS[j].category \in Keys(rs)
                /\ "score" \in DOMAIN DataOf(rs, WEIGHTS[j].category)} |->
        DataOf(rs, WEIGHTS[i].category).score]

\* calculate_overall_score, lines 37-44: total_score and total_weight after
\* the first i entries of WEIGHTS
RECURSIVE Totals(_, _)
Totals(scores, i) ==
    IF i = 0 THEN [total_score |-> FloatZero, total_weight |-> FloatZero]
    ELSE LET prev == Totals(scores, i - 1)
             weight == FloatWeights[i]
         IN IF i \in DOMAIN scores
            THEN [total_score |->
                      FloatAdd(prev.total_score, FloatTimesInt(weight, scores[i])),
                  total_weight |-> FloatAdd(prev.total_weight, weight)]
            ELSE prev

\* Faulty variant: the weighted sum is returned without the division
WeightedMeanUnscaled(scores) ==
    LET t == Totals(scores, Len(WEIGHTS))
    IN IF t.total_weight = FloatZero THEN 0 ELSE PyRound(t.total_score)

\* calculate_overall_score, lines 46-49
WeightedMean(scores) ==
    LET t == Totals(scores, Len(WEIGHTS))
    IN IF t.total_weight = FloatZero THEN 0
       ELSE PyRound(FloatDiv(t.total_score, t.total_weight))

\* Faulty variant: a score on a threshold gets the grade below
GradeExclusive(score) ==
    IF score > 90 THEN "A"
    ELSE IF score > 80 THEN "B"
    ELSE IF score > 70 THEN "C"
    ELSE IF score > 60 THEN "D"
    ELSE "F"

\* get_grade, lines 124-133, for a score that is given
Grade(score) ==
    IF score >= 90 THEN "A"
    ELSE IF score >= 80 THEN "B"
    ELSE IF score >= 70 THEN "C"
    ELSE IF score >= 60 THEN "D"
    ELSE "F"

\* get_priority_issues, lines 67-78, for one issue: the entry and its bucket,
\* or the KeyError of issue['type'] for an issue without that key
Prioritise(category, score, issue) ==
    IF "type" \notin DOMAIN issue THEN [raised |-> "KeyError", bucket |-> "", entry |-> <<>>]
    ELSE [raised |-> "",
          bucket |-> IF issue.type = "critical" \/ score < PRIORITY_THRESHOLDS.high
                     THEN "high"
                     ELSE IF issue.type = "warning" \/ score < PRIORITY_THRESHOLDS.medium
                     THEN "medium"
                     ELSE "low",
          entry |-> <<[category |-> category,
                       type |-> Get(issue, "type", "info"),
                       message |-> Get(issue, "message", "")]>>]

\* get_priority_issues, lines 66-78: the inner loop over the issues todo of
\* one category
RECURSIVE AddIssues(_, _, _, _)
AddIssues(so_far, category, score, todo) ==
    IF todo = <<>> \/ so_far.raised # "" THEN so_far
    ELSE LET p == Prioritise(category, score, Head(todo))
             next == IF p.raised # "" THEN [so_far EXCEPT !.raised = p.raised]
                     ELSE [so_far EXCEPT ![p.bucket] = @ \o p.entry]
         IN AddIssues(next, category, score, Tail(todo))

\* get_priority_issues, lines 59-78: the loop over the categories from the
\* k-th on
RECURSIVE AddCategories(_, _, _)
AddCategories(so_far, rs, k) ==
    IF k > Len(rs) \/ so_far.raised # "" THEN so_far
    ELSE LET data == rs[k].data
             next == IF "issues" \notin DOMAIN data THEN so_far
                     ELSE AddIssues(so_far, rs[k].category, Get(data, "score", 100),
                                    data.issues)
         IN AddCategories(next, rs, k + 1)

\* What a method call left: its name, its arguments, the exception it raised
\* ("" if none) and the value it returned
Call(name, args, raised, value) ==
    [call |-> name, args |-> args, raised |-> raised, value |-> value]

\* get_priority_issues, lines 51-80
get_priority_issues(rs) ==
    LET done == AddCategories([raised |-> "", high |-> <<>>, medium |-> <<>>, low |-> <<>>],
                              rs, 1)
    IN IF done.raised # "" THEN Call("get_priority_issues", <<>>, done.raised, <<>>)
       ELSE Call("get_priority_issues", <<>>, "",
                 [high |-> done.high, medium |-> done.medium, low |-> done.low])

\* get_all_recommendations, lines 90-95: the entries appended for one
\* category
Entries(category, data) ==
    [n \in 1..Len(data.recommendations) |->
        [category |-> category,
         recommendation |-> data.recommendations[n],
         score |-> Get(data, "score", 100)]]

\* get_all_recommendations, lines 86-95: the loop over the categories from
\* the k-th on
RECURSIVE Collected(_, _)
Collected(rs, k) ==
    IF k > Len(rs) THEN <<>>
    ELSE (IF "recommendations" \notin DOMAIN rs[k].data THEN <<>>
          ELSE Entries(rs[k].category, rs[k].data)) \o Collected(rs, k + 1)

\* Faulty variant: an entry goes before the entries of the same score
InsertByScoreFirst(sorted, e) ==
    SelectSeq(sorted, LAMBDA y : y.score < e.score) \o <<e>>
        \o SelectSeq(sorted, LAMBDA y : y.score >= e.score)

\* One step of list.sort(key=lambda x: x['score']): the sort is stable, so
\* an entry goes behind the earlier entries of the same score
InsertByScore(sorted, e) ==
    SelectSeq(sorted, LAMBDA y : y.score <= e.score) \o <<e>>
        \o SelectSeq(sorted, LAMBDA y : y.score > e.score)

\* recommendations.sort(key=lambda x: x['score']), line 98
RECURSIVE SortByScore(_)
SortByScore(lst) ==
    IF lst = <<>> THEN <<>>
    ELSE InsertByScore(SortByScore(SubSeq(lst, 1, Len(lst) - 1)), lst[Len(lst)])

\* get_all_recommendations, lines 82-100
get_all_recommendations(rs) ==
    Call("get_all_recommendations", <<>>, "", SortByScore(Collected(rs, 1)))

(***************************************************************************)
(* The category mappings the scorer is run on.                             *)
(***************************************************************************)
\* At most MaxCategories weighted categories in a mapping of free scores,
\* at most MaxIssues issues in a category of free issues
MaxCategories == 2
MaxIssues == 2

\* Categories in the order in which app.py inserts them (lines 107-159)
CategoryOrder ==
    <<"title", "meta_description", "url_structure", "headings", "content", "images",
      "links", "performance", "keyword", "broken_links", "security">>

WeightedCategories == {WEIGHTS[i].category : i \in 1..Len(WEIGHTS)}
UnweightedCategories == Range(CategoryOrder) \ WeightedCategories

\* The dictionary with the categories of f in the order of CategoryOrder,
\* from the i-th on
RECURSIVE Ordered(_, _)
Ordered(f, i) ==
    IF i > Len(CategoryOrder) THEN <<>>
    ELSE (IF CategoryOrder[i] \in DOMAIN f
          THEN <<[category |-> CategoryOrder[i], data |-> f[CategoryOrder[i]]]>>
          ELSE <<>>) \o Ordered(f, i + 1)

Mapping(f) == Ordered(f, 1)

\* Category scores of the modelled mappings: the ends of the range, two
\* scores of the scenario of the specification and one next to a tie
ScoreValues == {0, 42, 60, 80, 100}

\* What an analyzer without issues returns
Scored(s) == [score |-> s, issues |-> <<>>]

\* Up to MaxCategories weighted categories with any of the scores
ScoreMappings ==
    {Mapping(f) :
        f \in UNION {[S -> {Scored(s) : s \in ScoreValues}] :
                        S \in {T \in SUBSET WeightedCategories :
                                  Cardinality(T) <= MaxCategories}}}

\* The mapping of test_score_calculation (tests/test_analyzers.py, 272-281)
TestResults ==
    [title |-> Scored(80), meta_description |-> Scored(70), url_structure |-> Scored(90),
     headings |-> Scored(85), content |-> Scored(75), images |-> Scored(60),
     links |-> Scored(70), performance |-> Scored(80)]

Without(f, c) == [k \in DOMAIN f \ {c} |-> f[k]]
With(f, c, d) == [k \in DOMAIN f \cup {c} |-> IF k = c THEN d ELSE f[k]]

\* All eight weighted categories: the test mapping, with one score changed,
\* and with one category removed
FullMappings ==
    {Mapping(TestResults)}
        \cup {Mapping(With(TestResults, c, Scored(s))) :
                 c \in WeightedCategories, s \in ScoreValues}
        \cup {Mapping(Without(TestResults, c)) : c \in WeightedCategories}

\* The scenario of the specification: title 80 and content 60 only
TitleAndContent == [title |-> Scored(80), content |-> Scored(60)]

\* No weighted category, two weighted categories or all eight, and one
\* category outside the weight table
UnweightedMappings ==
    {Mapping(With(f, c, Scored(s))) :
        f \in {<<>>, TitleAndContent, TestResults},
        c \in UnweightedCategories, s \in ScoreValues}

\* Issues as the analyzers report them: with a 'type' (title_analyzer.py and
\* the like), without a message, and with a 'severity' instead of a 'type'
\* (link_checker.py lines 36-48, security_analyzer.py)
IssueKinds ==
    {[type |-> "critical", message |-> "m1"],
     [type |-> "warning", message |-> "m1"],
     [type |-> "info", message |-> "m1"],
     [type |-> "info", message |-> "m2"],
     [type |-> "warning"],
     [severity |-> "high", message |-> "m1"]}

IssueLists == UNION {[1..n -> IssueKinds] : n \in 0..MaxIssues}

\* Scores on both sides of the two thresholds of get_priority_issues
PriorityScores == {35, 39, 40, 69, 70}

\* One category with any score and any issues, with issues and no score,
\* or with a score and no issues
IssueMappings ==
    {Mapping(With(<<>>, c, d)) :
        c \in {"title", "content", "broken_links"},
        d \in {[score |-> s, issues |-> l] : s \in PriorityScores, l \in IssueLists}
                \cup {[issues |-> l] : l \in IssueLists}
                \cup {[score |-> s] : s \in PriorityScores}}

\* Two categories with one issue each, as in test_priority_issues
\* (tests/test_analyzers.py, 299-308)
PairMappings ==
    {Mapping([title |-> [score |-> s1, issues |-> <<i1>>],
              content |-> [score |-> s2, issues |-> <<i2>>]]) :
        s1 \in {30, 80}, s2 \in {30, 80}, i1 \in IssueKinds, i2 \in IssueKinds}

\* What an analyzer returns besides its issues: a score and a list of
\* recommendations, a list without a score, or a score alone
RecommendationData ==
    {[score |-> s, recommendations |-> l] :
        s \in {40, 90}, l \in {<<>>, <<"r1">>, <<"r1", "r2">>}}
        \cup {[recommendations |-> <<"r1">>], [score |-> 40]}

\* Up to three categories A, B, C in this order, with recommendations
RecommendationMappings ==
    {Mapping(f) :
        f \in UNION {[S -> RecommendationData] :
                        S \in SUBSET {"title", "meta_description", "url_structure"}}}

ScorerInputs ==
    ScoreMappings \cup FullMappings \cup UnweightedMappings \cup IssueMappings
        \cup PairMappings \cup RecommendationMappings

\* calculate_overall_score for every profile of the modelled mappings,
\* computed once
OverallTable == [scores \in {Profile(rs) : rs \in ScorerInputs} |-> WeightedMean(scores)]

\* calculate_overall_score, lines 35-49
calculate_overall_score(rs) ==
    LET scores == Profile(rs)
    IN IF scores \in DOMAIN OverallTable THEN OverallTable[scores] ELSE WeightedMean(scores)

\* get_grade, lines 119-133: args is empty for the default score=None
get_grade(rs, args) ==
    Grade(IF args = <<>> THEN calculate_overall_score(rs) ELSE args[1])

\* get_score_color(), lines 135-145
get_score_color(rs) ==
    LET score == calculate_overall_score(rs)
    IN IF score >= 80 THEN "green" ELSE IF score >= 60 THEN "yellow" ELSE "red"

\* get_summary, lines 106-117, given what get_priority_issues (line 104) and
\* calculate_overall_score (line 107) do: the exception of
\* get_priority_issues leaves get_summary; category_scores is the dictionary
\* in insertion order
Summary(rs, p, overall) ==
    IF p.raised # "" THEN Call("get_summary", <<>>, p.raised, <<>>)
    ELSE Call("get_summary", <<>>, "",
              [overall_score |-> overall,
               total_issues |-> Len(p.value.high) + Len(p.value.medium) + Len(p.value.low),
               high_priority |-> Len(p.value.high),
               medium_priority |-> Len(p.value.medium),
               low_priority |-> Len(p.value.low),
               categories_analyzed |-> Len(rs),
               category_scores |->
                   [k \in 1..Len(rs) |->
                       [category |-> rs[k].category,
                        score |-> Get(rs[k].data, "score", 0)]]])

\* get_summary, lines 102-117
get_summary(rs) == Summary(rs, get_priority_issues(rs), calculate_overall_score(rs))

(***************************************************************************)
(* The scorer as app.py uses it: a new SEOScorer gets its results once     *)
(* (lines 178-179) and is then asked for its figures.                      *)
(***************************************************************************)
\* A new SEOScorer; no LinkChecker is running
InitScorer ==
    /\ soup = <<>>
    /\ max_links = default_max_links
    /\ issues = <<>>
    /\ recommendations = <<>>
    /\ pc = "ready"
    /\ unique_links = <<>>
    /\ futures = <<>>
    /\ yielded = {}
    /\ results = <<>>
    /\ network = [u \in AllUrls |-> 0]
    /\ report = NoReport
    /\ self_results = <<>>
    /\ returned = NoCall
    /\ earlier = <<>>
    /\ scans = <<>>

checker_vars ==
    <<soup, max_links, issues, recommendations, pc, unique_links, futures, yielded,
      results, network, report>>

\* scorer.set_results(results) on the new scorer
SetResults ==
    /\ self_results = <<>>
    /\ returned.call = "none"
    /\ self_results' \in ScorerInputs
    /\ UNCHANGED <<returned, caller_vars, checker_vars>>

CalculateOverallScore ==
    /\ returned' = Call("calculate_overall_score", <<>>, "",
                        calculate_overall_score(self_results))
    /\ UNCHANGED <<self_results, caller_vars, checker_vars>>

GetPriorityIssues ==
    /\ returned' = get_priority_issues(self_results)
    /\ UNCHANGED <<self_results, caller_vars, checker_vars>>

GetGrade(args) ==
    /\ returned' = Call("get_grade", args, "", get_grade(self_results, args))
    /\ UNCHANGED <<self_results, caller_vars, checker_vars>>

\* scorer.get_grade()
GetOverallGrade == GetGrade(<<>>)

\* Faulty variant: get_summary stores its overall score in self.results
GetSummaryStoring ==
    /\ returned' = get_summary(self_results)
    /\ self_results' =
           IF "summary" \in Keys(self_results) THEN self_results
           ELSE Append(self_results,
                       [category |-> "summary",
                        data |-> [score |-> calculate_overall_score(self_results)]])
    /\ UNCHANGED <<caller_vars, checker_vars>>

\* Faulty variant: get_all_recommendations takes the recommendations out of
\* the results
GetAllRecommendationsDraining ==
    /\ returned' = get_all_recommendations(self_results)
    /\ self_results' =
           [k \in 1..Len(self_results) |->
               [category |-> self_results[k].category,
                data |-> IF "recommendations" \in DOMAIN self_results[k].data
                         THEN [self_results[k].data EXCEPT !.recommendations = <<>>]
                         ELSE self_results[k].data]]
    /\ UNCHANGED <<caller_vars, checker_vars>>

GetAllRecommendations ==
    /\ returned' = get_all_recommendations(self_results)
    /\ UNCHANGED <<self_results, caller_vars, checker_vars>>

GetSummary ==
    /\ returned' = get_summary(self_results)
    /\ UNCHANGED <<self_results, caller_vars, checker_vars>>

NextScorer ==
    \/ SetResults
    \/ CalculateOverallScore
    \/ GetPriorityIssues
    \/ GetOverallGrade
    \/ GetAllRecommendations
    \/ GetSummary

SpecScorer == InitScorer /\ [][NextScorer]_vars

(***************************************************************************)
(* The scorer called again and again on the results it was given, by a     *)
(* caller that keeps what the calls return (app.py, lines 181-183).        *)
(***************************************************************************)
\* Largest number of returned values the caller keeps
MaxKept == 2

\* What an analyzer returns: a score, issues with a 'type' or a 'severity',
\* and recommendations
RerunData ==
    {[score |-> s, issues |-> i, recommendations |-> r] :
        s \in {0, 80},
        i \in {<<>>,
               <<[type |-> "critical", message |-> "m1"]>>,
               <<[type |-> "info", message |-> "m1"],
                 [severity |-> "high", message |-> "m2"]>>},
        r \in {<<>>, <<"r1", "r2">>}}

\* Mappings of up to one weighted category and the link check
RerunInputs ==
    {Mapping(f) : f \in UNION {[S -> RerunData] : S \in SUBSET {"title", "broken_links"}}}

\* A scorer that was given its results
InitRerun ==
    /\ soup = <<>>
    /\ max_links = default_max_links
    /\ issues = <<>>
    /\ recommendations = <<>>
    /\ pc = "ready"
    /\ unique_links = <<>>
    /\ futures = <<>>
    /\ yielded = {}
    /\ results = <<>>
    /\ network = [u \in AllUrls |-> 0]
    /\ report = NoReport
    /\ self_results \in RerunInputs
    /\ returned = NoCall
    /\ earlier = <<>>
    /\ scans = <<>>

\* The caller assigns what the call returned to a variable of its own
\* (`summary = scorer.get_summary()`); an exception is kept as such
Keep ==
    /\ returned.call # "none"
    /\ Len(earlier) < MaxKept
    /\ earlier' = Append(earlier, returned)
    /\ returned' = NoCall
    /\ UNCHANGED <<self_results, scans, checker_vars>>

NextRerun ==
    \/ CalculateOverallScore
    \/ GetPriorityIssues
    \/ GetAllRecommendations
    \/ GetSummary
    \/ GetOverallGrade
    \/ Keep

SpecRerun == InitRerun /\ [][NextRerun]_vars

\* scorer.get_grade(score) for every integer score from 0 to 100
GradeScores == 0..100

GetGradeOf == \E score \in GradeScores : GetGrade(<<score>>)

SpecGrade == InitScorer /\ [][GetGradeOf]_vars

(***************************************************************************)
(* The request handler of app.py from the link check to the scorer: the    *)
(* result of LinkChecker.analyze is stored under 'broken_links' (line 155) *)
(* next to the results of the other analyzers, here the title's.           *)
(***************************************************************************)
TitleResult == [score |-> 80, issues |-> <<[type |-> "info", message |-> "m1"]>>]

SetAnalysisResults ==
    /\ pc = "done"
    /\ self_results = <<>>
    /\ returned.call = "none"
    /\ self_results' = Mapping([title |-> TitleResult, broken_links |-> report])
    /\ UNCHANGED <<returned, caller_vars, checker_vars>>

NextAnalysis == Return \/ SetAnalysisResults \/ GetPriorityIssues \/ CalculateOverallScore

SpecAnalysis == InitScore /\ [][NextAnalysis]_vars

(***************************************************************************)
(* The rest of the request handler: lines 181-229 of app.py.               *)
(***************************************************************************)
\* What history.save_scan does: it inserts the row and returns, or it raises
\* (sqlite3.Error, OSError) and no row is committed
SaveOutcomes == {"saved", "raised"}

\* The row of save_scan without its timestamp (history_manager.py, 43-52)
ScanRow(rs, summary) ==
    [url |-> base_url,
     score |-> summary.overall_score,
     grade |-> get_grade(rs, <<>>),
     category_scores |-> summary.category_scores]

\* results.get(key)
ResultOf(rs, key) == IF key \in Keys(rs) THEN <<DataOf(rs, key)>> ELSE <<>>

\* The response of lines 197-221 as far as it is made from the results
\* (response_time and analyzed_at are left out)
Body(rs, summary, priority, ranked) ==
    [success |-> TRUE,
     url |-> base_url,
     overall_score |-> summary.overall_score,
     grade |-> get_grade(rs, <<>>),
     score_color |-> get_score_color(rs),
     analysis |-> rs,
     summary |-> summary,
     priority_issues |-> priority,
     recommendations |-> ranked,
     broken_links_data |-> ResultOf(rs, "broken_links")]

\* `except Exception as e` of line 225
Failed(error) ==
    [status |-> 500, body |-> [success |-> FALSE, error |-> <<"Analysis failed", error>>]]

\* Faulty variant: no try/except around history.save_scan
analyze_url_unguarded(rs, rows, save) ==
    LET summary == get_summary(rs)
        priority == get_priority_issues(rs)
        ranked == get_all_recommendations(rs)
    IN IF summary.raised # "" THEN [scans |-> rows, response |-> Failed(summary.raised)]
       ELSE IF priority.raised # "" THEN [scans |-> rows, response |-> Failed(priority.raised)]
       ELSE IF save = "raised" THEN [scans |-> rows, response |-> Failed("save_scan")]
       ELSE [scans |-> Append(rows, ScanRow(rs, summary.value)),
             response |->
                 [status |-> 200,
                  body |-> Body(rs, summary.value, priority.value, ranked.value)]]

\* Lines 185-229 given what the calls of lines 181-183 did: the table
\* afterwards and the response
Handled(rs, rows, save, summary, priority, ranked) ==
    IF summary.raised # "" THEN [scans |-> rows, response |-> Failed(summary.raised)]
    ELSE IF priority.raised # "" THEN [scans |-> rows, response |-> Failed(priority.raised)]
    ELSE [scans |-> IF save = "saved" THEN Append(rows, ScanRow(rs, summary.value))
                    ELSE rows,
          response |->
              [status |-> 200,
               body |-> Body(rs, summary.value, priority.value, ranked.value)]]

\* analyze_url, lines 181-229, for the results rs, the rows of the history
\* table and what save_scan does
analyze_url(rs, rows, save) ==
    Handled(rs, rows, save, get_summary(rs), get_priority_issues(rs),
            get_all_recommendations(rs))

\* The handler has run: the table and the response are what it left
Answered(done) ==
    /\ scans' = done.scans
    /\ returned' = Call("analyze_url", <<>>, "", done.response)

Respond ==
    /\ self_results # <<>>
    /\ returned.call = "none"
    /\ \E save \in SaveOutcomes : Answered(analyze_url(self_results, scans, save))
    /\ UNCHANGED <<self_results, earlier, checker_vars>>

NextHandler == Return \/ SetAnalysisResults \/ Respond

SpecHandler == InitScore /\ [][NextHandler]_vars

(***************************************************************************)
(* LinkChecker.analyze called again on the same checker.                   *)
(***************************************************************************)
\* The caller keeps a copy of the report and calls analyze again; the page is
\* the same, every link is requested again and the probes end with the
\* outcomes of the call before (lines 24-27 and 104-119 of the new call).
\* self.issues and self.recommendations are set in __init__ only.
AnalyzeAgain ==
    /\ pc = "done"
    /\ Len(earlier) < MaxKept
    /\ earlier' = Append(earlier, report)
    /\ pc' = "as_completed"
    /\ report' = NoReport
    /\ network' = [u \in AllUrls |->
                       network[u] + (IF u \in Range(unique_links) THEN 1 ELSE 0)]
    /\ UNCHANGED <<soup, max_links, issues, recommendations, unique_links, futures,
                   yielded, results>>
    /\ UNCHANGED <<self_results, returned, scans>>

NextReanalyze == Return \/ AnalyzeAgain

SpecReanalyze == InitScore /\ [][NextReanalyze]_vars

(***************************************************************************)
(* Properties of the scorer.                                               *)
(***************************************************************************)
LinkHealth == DataOf(self_results, "broken_links")
Buckets == {"high", "medium", "low"}

\* C13: when the result of LinkChecker.analyze holds an issue and is part of
\* the mapping, get_priority_issues returns without raising, and every
\* link-health issue is in one of the buckets with the category broken_links.
C13_LinkIssuesPrioritised ==
    (/\ returned.call = "get_priority_issues"
     /\ "broken_links" \in Keys(self_results)
     /\ LinkHealth.issues # <<>>) =>
        /\ returned.raised = ""
        /\ \A k \in 1..Len(LinkHealth.issues) :
            \E b \in Buckets : \E j \in 1..Len(returned.value[b]) :
                /\ returned.value[b][j].category = "broken_links"
                /\ returned.value[b][j].message = LinkHealth.issues[k].message

\* The entries of WEIGHTS whose category is present with a score
Present ==
    {i \in 1..Len(WEIGHTS) :
        \E k \in 1..Len(self_results) :
            /\ self_results[k].category = WEIGHTS[i].category
            /\ "score" \in DOMAIN self_results[k].data}

ScoreOf(i) == DataOf(self_results, WEIGHTS[i].category).score

RECURSIVE SumOver(_, _)
SumOver(f, S) ==
    IF S = {} THEN 0
    ELSE LET i == CHOOSE j \in S : TRUE
         IN f[i] + SumOver(f, S \ {i})

\* Sum of weights and sum of score * weight over the present categories, in
\* hundredths
PresentWeight == SumOver([i \in Present |-> WEIGHTS[i].weight], Present)
PresentSum == SumOver([i \in Present |-> ScoreOf(i) * WEIGHTS[i].weight], Present)

\* num / den rounded to the nearest integer, a tie to the even neighbour
\* (Python's round) or upwards
Nearest(num, den) == {RoundDiv(num, den), (2 * num + den) \div (2 * den)}

\* C14: the overall score is the rounded quotient of the sum of score *
\* weight by the sum of the weights over the weighted categories present;
\* with all eight present it is the rounded sum of score * weight, and with
\* one category of weight w missing the sum over the rest divided by 1 - w.
C14_WeightedMean ==
    (returned.call = "calculate_overall_score" /\ Present # {}) =>
        /\ returned.value \in Nearest(PresentSum, PresentWeight)
        /\ Cardinality(Present) = Len(WEIGHTS)
            => returned.value \in Nearest(PresentSum, 100)
        /\ \A i \in 1..Len(WEIGHTS) :
            Present = (1..Len(WEIGHTS)) \ {i}
                => returned.value \in Nearest(PresentSum, 100 - WEIGHTS[i].weight)

\* C15: a category outside the weight table contributes nothing to the
\* overall score: nothing is raised, the score is that of the weighted
\* categories alone, adding such a category or changing its score leaves it
\* unchanged, and without a weighted category the score is 0.
C15_UnweightedIgnored ==
    returned.call = "calculate_overall_score" =>
        /\ returned.raised = ""
        /\ returned.value = calculate_overall_score(
               SelectSeq(self_results, LAMBDA e : e.category \in WeightedCategories))
        /\ \A c \in UnweightedCategories \ Keys(self_results) : \A s \in ScoreValues :
               returned.value = calculate_overall_score(
                   Append(self_results, [category |-> c, data |-> Scored(s)]))
        /\ \A k \in 1..Len(self_results) : \A s \in ScoreValues :
               self_results[k].category \in UnweightedCategories =>
                   returned.value = calculate_overall_score(
                       [self_results EXCEPT ![k].data = Scored(s)])
        /\ Present = {} => returned.value = 0

\* Title 80 and content 60 scored together with a failed link check.
C15_Witness ==
    /\ self_results = Mapping(With(TitleAndContent, "broken_links", Scored(0)))
    /\ returned.call = "calculate_overall_score"
    /\ returned.raised = ""
    /\ returned.value = 69

\* C16 as stated: for title 80 and content 60 alone the overall score is 69
\* and the grade derived from it is 'C'.
C16_ScenarioGradeC ==
    self_results = Mapping(TitleAndContent) =>
        /\ returned.call = "calculate_overall_score" => returned.value = 69
        /\ (returned.call = "get_grade" /\ returned.args = <<>>) => returned.value = "C"

\* C16: for title 80 and content 60 alone the overall score is 69 and the
\* grade derived from it is 'D'.
C16_ScenarioGradeD ==
    self_results = Mapping(TitleAndContent) =>
        /\ returned.call = "calculate_overall_score" => returned.value = 69
        /\ (returned.call = "get_grade" /\ returned.args = <<>>) => returned.value = "D"

\* The scenario was graded.
C16_Witness ==
    /\ self_results = Mapping(TitleAndContent)
    /\ returned.call = "get_grade"
    /\ returned.args = <<>>
    /\ returned.value = "D"

\* C17: for weighted categories with integer scores from 0 to 100 the
\* overall score is an integer from 0 to 100.
C17_OverallInRange ==
    returned.call = "calculate_overall_score" =>
        /\ \A i \in Present : ScoreOf(i) \in 0..100
        /\ returned.value \in 0..100

\* Two categories that both score 100.
C17_Witness ==
    /\ returned.call = "calculate_overall_score"
    /\ Cardinality(Present) = 2
    /\ \A i \in Present : ScoreOf(i) = 100
    /\ returned.value = 100

\* C18: get_grade gives every score from 0 to 100 exactly one grade: A from
\* 90, B for 80-89, C for 70-79, D for 60-69, F below 60.
C18_GradeSteps ==
    (returned.call = "get_grade" /\ returned.args # <<>>) =>
        LET score == returned.args[1]
            grade == returned.value
        IN /\ returned.raised = ""
           /\ grade = "A" <=> score >= 90
           /\ grade = "B" <=> (80 <= score /\ score <= 89)
           /\ grade = "C" <=> (70 <= score /\ score <= 79)
           /\ grade = "D" <=> (60 <= score /\ score <= 69)
           /\ grade = "F" <=> score < 60

\* The lowest score with the grade A was graded.
C18_Witness ==
    /\ returned.call = "get_grade"
    /\ returned.args = <<90>>
    /\ returned.value = "A"

\* The bucket the rule gives an issue of a category with the given score
ExpectedBucket(issue, score) ==
    IF Get(issue, "type", "") = "critical" \/ score < 40 THEN "high"
    ELSE IF Get(issue, "type", "") = "warning" \/ score < 70 THEN "medium"
    ELSE "low"

\* C19: get_priority_issues puts every issue of every category in the bucket
\* of the first rule that matches: high if it is tagged critical or the
\* category score is below 40, else medium if it is tagged warning or the
\* score is below 70, else low.
C19_PriorityRule ==
    returned.call = "get_priority_issues" =>
        /\ returned.raised = ""
        /\ \A k \in 1..Len(self_results) :
            LET category == self_results[k].category
                data == self_results[k].data
            IN \A n \in 1..Len(Get(data, "issues", <<>>)) :
                LET issue == data.issues[n]
                    bucket == returned.value[ExpectedBucket(issue, Get(data, "score", 100))]
                IN \E j \in 1..Len(bucket) :
                    /\ bucket[j].category = category
                    /\ bucket[j].message = Get(issue, "message", "")

\* Category and message of every issue of the mapping, from the k-th
\* category on
RECURSIVE AllIssues(_, _)
AllIssues(rs, k) ==
    IF k > Len(rs) THEN <<>>
    ELSE LET found == Get(rs[k].data, "issues", <<>>)
         IN [n \in 1..Len(found) |->
                [category |-> rs[k].category, message |-> Get(found[n], "message", "")]]
            \o AllIssues(rs, k + 1)

Occurrences(seq, e) == Cardinality({j \in 1..Len(seq) : seq[j] = e})

\* C20: the buckets partition the issues: nothing is raised, and the entries
\* of the three buckets together are the issues of the mapping, each as
\* often as it occurs there, with its category and its message.
C20_Partition ==
    returned.call = "get_priority_issues" =>
        /\ returned.raised = ""
        /\ LET given == AllIssues(self_results, 1)
               both == returned.value.high \o returned.value.medium \o returned.value.low
               entries == [j \in 1..Len(both) |->
                              [category |-> both[j].category, message |-> both[j].message]]
           IN /\ Len(entries) = Len(given)
              /\ \A e \in Range(given) \cup Range(entries) :
                    Occurrences(entries, e) = Occurrences(given, e)

\* What the ranking is made from: category, recommendation and category
\* score (100 for a category without a score) of every recommendation of the
\* mapping, in the order of the mapping, from the k-th category on
RECURSIVE Flattened(_, _)
Flattened(rs, k) ==
    IF k > Len(rs) THEN <<>>
    ELSE LET found == Get(rs[k].data, "recommendations", <<>>)
         IN [n \in 1..Len(found) |->
                [category |-> rs[k].category, recommendation |-> found[n],
                 score |-> Get(rs[k].data, "score", 100)]]
            \o Flattened(rs, k + 1)

ScoredAt(seq, s) == SelectSeq(seq, LAMBDA e : e.score = s)

\* C21: get_all_recommendations returns every recommendation of every
\* category once, with the score of its category, in ascending order of that
\* score, and the recommendations of one score are in the order in which the
\* mapping holds them.
C21_StableRanking ==
    returned.call = "get_all_recommendations" =>
        LET given == Flattened(self_results, 1)
            ranked == returned.value
        IN /\ returned.raised = ""
           /\ Len(ranked) = Len(given)
           /\ \A j, k \in 1..Len(ranked) : j < k => ranked[j].score <= ranked[k].score
           /\ \A s \in {given[j].score : j \in 1..Len(given)} :
                  ScoredAt(ranked, s) = ScoredAt(given, s)

\* A(90), B(40), C(40) with one recommendation each were ranked: B, C, A.
C21_Witness ==
    /\ self_results =
           Mapping([title |-> [score |-> 90, recommendations |-> <<"r1">>],
                    meta_description |-> [score |-> 40, recommendations |-> <<"r1">>],
                    url_structure |-> [score |-> 40, recommendations |-> <<"r1">>]])
    /\ returned.call = "get_all_recommendations"
    /\ Len(returned.value) = 3
    /\ returned.value[1].category = "meta_description"
    /\ returned.value[2].category = "url_structure"
    /\ returned.value[3].category = "title"

\* C22: no call of calculate_overall_score, get_priority_issues,
\* get_all_recommendations, get_summary or get_grade changes the category
\* mapping: every step of the scorer leaves self.results as it was.
C22_ResultsUnchanged == [][self_results' = self_results]_vars

\* Three of the methods were called on a mapping with issues and
\* recommendations.
C22_Witness ==
    /\ Len(earlier) = 2
    /\ earlier[1].call = "get_all_recommendations"
    /\ earlier[2].call = "get_priority_issues"
    /\ returned.call = "get_summary"
    /\ \E k \in 1..Len(self_results) :
           /\ self_results[k].data.issues # <<>>
           /\ self_results[k].data.recommendations # <<>>

C24_NothingAccumulated ==
    pc = "done" =>
        \A i \in 1..Len(earlier) :
            /\ report.issues = earlier[i].issues
            /\ report.recommendations = earlier[i].recommendations

\* C25: the response of analyze_url is the one it gives when save_scan
\* succeeds and the one it gives when save_scan raises, and an analysis
\* whose summary could be made is answered with status 200.
C25_HistoryFailureHarmless ==
    returned.call = "analyze_url" =>
        /\ get_summary(self_results).raised = "" => returned.value.status = 200
        /\ \A save \in SaveOutcomes :
               LET other == analyze_url(self_results, <<>>, save).response
               IN /\ other.status = returned.value.status
                  /\ other.body = returned.value.body

\* A report was returned although nothing was saved.
C25_Witness ==
    /\ returned.call = "analyze_url"
    /\ returned.value.status = 200
    /\ returned.value.body.success
    /\ returned.value.body.broken_links_data = <<report>>
    /\ scans = <<>>

\* A step of a worker thread of the pool
WorkerStep == WorkerStart \/ WorkerFinish

\* C26: a step of a worker thread changes neither the result list nor the
\* issues, the recommendations or any other attribute of the LinkChecker or
\* variable of analyze, and every change of the result list is made by the
\* calling thread (when it enters _check_links or in its as_completed loop).
C26_OnlyCoordinatorWrites ==
    [][/\ WorkerStep =>
            UNCHANGED <<results, issues, recommendations, soup, max_links, unique_links,
                        yielded, pc, report>>
       /\ results' # results => (Analyze \/ Collect)]_vars

\* An outcome was collected while a finished probe waits to be collected.
C26_Witness ==
    /\ pc = "as_completed"
    /\ Len(results) = 1
    /\ \E i \in 1..Len(futures) : futures[i].state = "FINISHED" /\ i \notin yielded

\* The URLs of the hrefs of the page that do not start with '#',
\* 'javascript:', 'mailto:' or 'tel:' (whitespace around the href aside) and
\* resolve to an http or https URL
Dereferenceable ==
    {u \in {urljoin(base_url, strip(soup[i])) :
                i \in {j \in 1..Len(soup) : strip(soup[j]).form \notin SkippedForms}} :
        u.scheme \in {"http", "https"}}

\* C27: the targets of a page are http or https URLs, no URL is among them
\* twice, each is the URL of an href that is not of a skipped form, and
\* every such URL with scheme http or https is a target unless max_links
\* cuts the list.
C27_LinkSet ==
    pc # "ready" =>
        /\ \A k \in 1..Len(unique_links) : unique_links[k].scheme \in {"http", "https"}
        /\ \A j, k \in 1..Len(unique_links) : unique_links[j] = unique_links[k] => j = k
        /\ Targets \subseteq Dereferenceable
        /\ Len(unique_links) = Min(Cardinality(Dereferenceable), max_links)
        /\ max_links >= Cardinality(Dereferenceable) => Targets = Dereferenceable

\* A page with a relative link, the same page linked with its full URL, a
\* mail link, a padded fragment and the empty href was analysed.
C27_Witness ==
    /\ pc # "ready"
    /\ max_links = default_max_links
    /\ [form |-> "relative", page |-> 1] \in Range(soup)
    /\ [form |-> "https", page |-> 1] \in Range(soup)
    /\ [form |-> "fragment", page |-> 0, padded |-> TRUE] \in Range(soup)
    /\ Targets = {[scheme |-> "https", page |-> 1]}

\* The weights of the first i entries of the table added as integers
RECURSIVE PercentSum(_)
PercentSum(i) == IF i = 0 THEN 0 ELSE PercentSum(i - 1) + WEIGHTS[i].weight

\* The overall score of a mapping with a score for each of the eight
\* weighted categories was computed
AllWeightsAdded ==
    /\ returned.call = "calculate_overall_score"
    /\ DOMAIN Profile(self_results) = 1..Len(WEIGHTS)

C29_CountsPartition ==
    pc = "done" =>
        /\ report.working + report.redirected + report.broken + report.unreachable
               = report.total_links
        /\ report.total_links = Len(report.details)
        /\ Len(report.broken_links) = report.broken
        /\ Len(report.redirected_links) = report.redirected

\* A result with a broken and an unreachable target.
C29_Witness ==
    /\ pc = "done"
    /\ report.broken = 1
    /\ report.unreachable = 1
    /\ report.total_links = 2

\* The number of issues of the categories from the k-th on
RECURSIVE IssueCount(_, _)
IssueCount(rs, k) ==
    IF k > Len(rs) THEN 0
    ELSE Len(Get(rs[k].data, "issues", <<>>)) + IssueCount(rs, k + 1)

\* C30: get_summary returns a summary whose total_issues is the sum of its
\* three priority counts and the number of issues of all categories, whose
\* overall_score is what calculate_overall_score returns, and whose
\* categories_analyzed is the number of categories of the mapping.
C30_SummaryConsistent ==
    returned.call = "get_summary" =>
        /\ returned.raised = ""
        /\ returned.value.total_issues =
               returned.value.high_priority + returned.value.medium_priority
                   + returned.value.low_priority
        /\ returned.value.total_issues = IssueCount(self_results, 1)
        /\ returned.value.overall_score = calculate_overall_score(self_results)
        /\ returned.value.categories_analyzed = Len(self_results)

====
